---- MODULE Spec2Model ----
(***************************************************************************)
(* Model of the spatial co-occurrence and leakage-safe split code of       *)
(* src/src/deepbiosphere/Build_Data.py:                                    *)
(*   add_overlapping_filter, make_test_split, remove_singletons_duplicates *)
(*                                                                         *)
(* Observations lie on a line (one projected coordinate, in metres); the   *)
(* code only ever uses the pairwise Euclidean distances.  Python's 0-based *)
(* positions are 1-based here, so the cKDTree padding index n is n + 1 and *)
(* the code's "j == 1999" (= K - 1) is "j = K".  res is kept in hundredths *)
(* of a metre so that 0.09 and 30 are the integers 9 and 3000; frac is a   *)
(* pair <<numerator, denominator>>.                                        *)
(*                                                                         *)
(* make_spatial_split reads the same tables in geographic coordinates: the *)
(* line is a meridian and a row's latitude is its coordinate in            *)
(* thousandths of a degree, so KM_2_DEG = 0.008 is the integer 8.  Only    *)
(* differences of latitudes matter, so latitudes are counted from latmin.  *)
(*                                                                         *)
(* remove_singletons_duplicates is modelled twice: as one step, and        *)
(* statement by statement (DupSpec), with the same operators for the       *)
(* query, the singleton test and the anchor rule.                          *)
(***************************************************************************)
EXTENDS Integers, Sequences, FiniteSets, TLC

\* ------------------------------------------------------------------ bounds
\* largest number of rows of an input table
MaxN == 5
\* number of neighbours asked of the cKDTree (2000 in the source, scaled)
K == 4
\* how many times in a row remove_singletons_duplicates is applied to a table
MaxPasses == 2
\* distances between consecutive observations of an input table, in metres:
\* 24 is ceil(256 * 0.09), the co-occurrence radius at the smallest res
Gaps == {24, 48, 72}
Species == {"a", "b"}
\* res, in hundredths of a metre: 0.08, 0.09, 0.19 (co-occurrence radius 49), 30, 30.01
Resolutions == {8, 9, 19, 3000, 3001}
Thresholds == {3}
ExclDists == {60}
\* frac as <<numerator, denominator>>: 0.1 (the default), 0.5
Fracs == {<<1, 10>>, <<1, 2>>}
\* how the cKDTree orders neighbours at equal distance (unspecified by scipy)
TieBreaks == {"lo", "hi"}

\* numpy's inf, the distance cKDTree.query reports for a missing neighbour
Inf == 1000 * 1000

VARIABLES
    pc,               \* where the run is: "start", "overlap", "rebalance", "done", "error"
    err,              \* which failure ended the run ("" when none)
    trees,            \* number of cKDTree objects built so far
    deduped,          \* how many times remove_singletons_duplicates has run on the table
    res,              \* the res argument of the last call, in hundredths of a metre
    threshold,        \* the threshold argument of the add_overlapping_filter that returned
    excl_dist,        \* the excl_dist argument of the make_test_split in progress
    frac,             \* the frac argument of the make_test_split in progress
    daset,            \* the table: a sequence of rows [id, x, species]
    overlapping_ids,  \* column overlapping_ids: per row, the set of overlapping ids
    overlapping_specs,\* column overlapping_specs: per row, the set of overlapping species
    counts,           \* Counter(flattened) of add_overlapping_filter: species -> count
    all_ids,          \* the all_id set of every iteration of the clustering loop, in order
    cluster_dist,     \* column cluster_dist (next_dists)
    cluster_assgn,    \* column cluster_assgn (cluster_name)
    unif_train_test,  \* column unif_train_test
    train_clusters,   \* summary dict of the train clusters
    test_clusters,    \* summary dict of the test clusters
    bandwidth,        \* the bandwidth argument of the make_spatial_split that returned
    latmax,           \* the latmax argument of the make_spatial_split that returned
    bands,            \* per band i: columns train_i and test_i and the printed distance
    dup_loop          \* the locals of the remove_singletons_duplicates in progress

vars == <<pc, err, trees, deduped, res, threshold, excl_dist, frac, daset, overlapping_ids,
          overlapping_specs, counts, all_ids, cluster_dist, cluster_assgn,
          unif_train_test, train_clusters, test_clusters, bandwidth, latmax, bands,
          dup_loop>>

\* the state of make_spatial_split
bandvars == <<bandwidth, latmax, bands>>

\* ------------------------------------------------------------------ helpers
Abs(a) == IF a < 0 THEN -a ELSE a

Min(S) == CHOOSE m \in S : \A o \in S : m <= o

Max(S) == CHOOSE m \in S : \A o \in S : m >= o

\* math.ceil(m * res) for res given in hundredths
CeilRes(m, r) == (m * r + 99) \div 100

\* the subsequence of s at the positions satisfying keep, in order
RECURSIVE SelectIdx(_, _, _)
SelectIdx(s, keep, i) ==
    IF i > Len(keep) THEN <<>>
    ELSE (IF keep[i] THEN <<s[i]>> ELSE <<>>) \o SelectIdx(s, keep, i + 1)

\* the range check with both ends excluded
ResOkStrict(r) == r > 9 /\ r < 3000

\* assert (res>=0.09) and (res <=30)
ResOk(r) == r >= 9 /\ r <= 3000

\* math.ceil(256*res)
OverlapDist(r) == CeilRes(256, r)

\* ------------------------------------------------------------------ cKDTree
\* the sequence f[1], ..., f[n]
RECURSIVE SeqOf(_, _)
SeqOf(f, n) == IF n = 0 THEN <<>> ELSE Append(SeqOf(f, n - 1), f[n])

\* Euclidean distance between rows i and j of the coordinate sequence xs
Distance(xs, i, j) == Abs(xs[i] - xs[j])

\* j comes before l in the neighbour list of i: nearer first, ties by index
Before(xs, tie, i, j, l) ==
    \/ Distance(xs, i, j) < Distance(xs, i, l)
    \/ /\ Distance(xs, i, j) = Distance(xs, i, l)
       /\ IF tie = "lo" THEN j < l ELSE j > l

\* btree.query(nA, k)[1][i]: the indices of the k nearest rows, padded with n + 1
QueryIdx(xs, tie, k, i) ==
    LET n == Len(xs)
        ahead == SeqOf([j \in 1..n |->
                    Cardinality({l \in 1..n : Before(xs, tie, i, l, j)})], n)
    IN SeqOf([r \in 1..k |->
                IF r > n THEN n + 1 ELSE CHOOSE j \in 1..n : ahead[j] = r - 1], k)

\* btree.query(nA, k): per row the distances to the k nearest rows, ascending and
\* padded with inf, and the indices of those rows
Query(xs, tie, k) ==
    LET n == Len(xs)
        ix == SeqOf([i \in 1..n |-> QueryIdx(xs, tie, k, i)], n)
        ds == SeqOf([i \in 1..n |->
                  SeqOf([r \in 1..k |-> IF ix[i][r] > n THEN Inf
                                        ELSE Distance(xs, i, ix[i][r])], k)], n)
    IN [dist |-> ds, idx |-> ix]

\* (dist <= d).sum(axis=1)[i]
CountWithin(drow, d) == Cardinality({r \in DOMAIN drow : drow[r] <= d})

Xs(table) == SeqOf([i \in 1..Len(table) |-> table[i].x], Len(table))

\* ------------------------------------------------------------------ input
ObsId(i) == 10 * i

\* the coordinates built from a sequence of gaps, the first row at 0
RECURSIVE Place(_, _)
Place(gaps, i) == IF i = 1 THEN 0 ELSE Place(gaps, i - 1) + gaps[i - 1]

\* the tables of up to MaxN rows: rows in order of coordinate; species names are
\* interchangeable, so the first row's species is fixed
TablesOf(gaps, species) ==
    UNION { { [i \in 1..n |-> [id |-> ObsId(i), x |-> Place(g, i), species |-> sp[i]]] :
                g \in [1..(n - 1) -> gaps],
                sp \in {f \in [1..n -> species] : f[1] = "a"} } : n \in 1..MaxN }

InputTables == TablesOf(Gaps, Species)

\* no remove_singletons_duplicates in progress
NoLoop == [todo |-> {}, name |-> "", tie |-> "lo", i |-> 0, dups |-> {}, ignore |-> {},
           to_drop |-> {}, to_remove |-> {}]

\* the state before the first call, for a table of tables
InitOf(tables) ==
    /\ pc = "start"
    /\ err = ""
    /\ trees = 0
    /\ deduped = 0
    /\ res = 0
    /\ threshold = 0
    /\ excl_dist = 0
    /\ frac = <<0, 1>>
    /\ daset \in tables
    /\ overlapping_ids = <<>>
    /\ overlapping_specs = <<>>
    /\ counts = <<>>
    /\ all_ids = <<>>
    /\ cluster_dist = <<>>
    /\ cluster_assgn = <<>>
    /\ unif_train_test = <<>>
    /\ train_clusters = <<>>
    /\ test_clusters = <<>>
    /\ bandwidth = 0
    /\ latmax = 0
    /\ bands = <<>>
    /\ dup_loop = NoLoop

Init == InitOf(InputTables)

\* ------------------------------------------------------------------ add_overlapping_filter
\* the neighbours within d without the row itself (which is at distance 0)
OverlapIdxOthers(drow, irow, d) == {irow[r] : r \in {q \in DOMAIN drow : drow[q] <= d /\ drow[q] > 0}}

\* close[row<=overlap_dist]: the indices, among the K queried neighbours of a row,
\* that lie within d
OverlapIdx(drow, irow, d) == {irow[r] : r \in {q \in DOMAIN drow : drow[q] <= d}}

\* the assertion on K stripped, and the assertion with <= for <
KAssertOff(dist, d) == TRUE

KAssertLoose(dist, d) == \A i \in DOMAIN dist : CountWithin(dist[i], d) <= K

\* the assertion on K: no row has K of its K neighbours within overlap_dist
KAssert(dist, d) == \A i \in DOMAIN dist : CountWithin(dist[i], d) < K

\* Counter(flattened)[s]: occurrences of species s over all rows' overlap_spec
RECURSIVE SpeciesCount(_, _, _, _)
SpeciesCount(table, ov, s, i) ==
    IF i = 0 THEN 0
    ELSE Cardinality({j \in ov[i] : table[j].species = s}) + SpeciesCount(table, ov, s, i - 1)

\* the species below the threshold, with the comparison off by one
ToRemoveLoose(cnt, thr) == {s \in DOMAIN cnt : cnt[s] + 1 < thr}

\* the species below the threshold
ToRemove(cnt, thr) == {s \in DOMAIN cnt : cnt[s] < thr}

\* what a call that raised leaves behind: the table and its columns as they were
Raised(kind, built) ==
    [raised |-> kind, trees |-> built, daset |-> daset, overlapping_ids |-> overlapping_ids,
     overlapping_specs |-> overlapping_specs, counts |-> counts]

\* add_overlapping_filter(daset, res, threshold), where q is what btree.query(nA, k=K)
\* returns for the table
add_overlapping_filter(table, r, thr, q) ==
    LET n == Len(table)
        d == OverlapDist(r)
        ov == SeqOf([i \in 1..n |-> OverlapIdx(q.dist[i], q.idx[i], d)], n)
        present == {table[i].species : i \in 1..n}
        cnt == [s \in present |-> SpeciesCount(table, ov, s, n)]
        to_remove == ToRemove(cnt, thr)
        keep == SeqOf([i \in 1..n |-> table[i].species \notin to_remove], n)
        ovid == [i \in 1..n |-> {table[j].id : j \in {l \in ov[i] : keep[l]}}]
        ovsp == [i \in 1..n |-> {table[j].species : j \in {l \in ov[i] : keep[l]}}]
    IN
    IF ~ResOk(r) THEN Raised("resolution", 0)
    ELSE IF n = 0 THEN Raised("empty", 0)
    ELSE IF ~KAssert(q.dist, d) THEN Raised("K", 1)
    ELSE [raised |-> "", trees |-> 1,
          daset |-> SelectIdx(table, keep, 1),
          overlapping_ids |-> SelectIdx(ovid, keep, 1),
          overlapping_specs |-> SelectIdx(ovsp, keep, 1),
          counts |-> cnt]

\* a call of add_overlapping_filter with res and threshold from the given sets
AddOverlappingFilterOf(resolutions, thresholds) ==
    /\ pc = "start"
    /\ \E tie \in TieBreaks : \E q \in {Query(Xs(daset), tie, K)} :
       \E r \in resolutions, thr \in thresholds :
         \E out \in {add_overlapping_filter(daset, r, thr, q)} :
            /\ pc' = IF out.raised = "" THEN "overlap" ELSE "error"
            /\ err' = out.raised
            /\ res' = r
            /\ trees' = trees + out.trees
            /\ threshold' = IF out.raised = "" THEN thr ELSE threshold
            /\ daset' = out.daset
            /\ overlapping_ids' = out.overlapping_ids
            /\ overlapping_specs' = out.overlapping_specs
            /\ counts' = out.counts
    /\ UNCHANGED <<deduped, excl_dist, frac, all_ids, cluster_dist, cluster_assgn,
                   unif_train_test, train_clusters, test_clusters, bandvars, dup_loop>>

AddOverlappingFilter == AddOverlappingFilterOf(Resolutions, Thresholds)

\* ------------------------------------------------------------------ make_test_split
\* dict assignment d[k] = v and del d[k]
Put(d, k, v) == [c \in DOMAIN d \cup {k} |-> IF c = k THEN v ELSE d[c]]

Del(d, k) == [c \in DOMAIN d \ {k} |-> d[c]]

\* gbif_2_ind[a]: the position of the row with id a
Gbif2Ind(table, a) == CHOOSE i \in 1..Len(table) : table[i].id = a

\* the cluster without the while loop: only the overlapping set of the row itself
GrowClusterOneHop(ov, prev, all_id) == prev

\* the while loop that grows all_id from the overlapping sets of the rows in prev
RECURSIVE GrowCluster(_, _, _)
GrowCluster(ov, prev, all_id) ==
    IF prev = {} THEN all_id
    ELSE LET curr == UNION {ov[k] : k \in prev}
             unexplored == curr \ all_id
         IN GrowCluster(ov, unexplored, all_id \cup unexplored)

\* the scan with inf, for "no neighbour", when all K neighbours are in all_id
MemberDistInf(drow, irow, all_id) ==
    LET out == {j \in DOMAIN irow : irow[j] \notin all_id}
    IN IF out # {} THEN drow[Min(out)] ELSE Inf

\* the scan of one member's neighbour row: the distance of the first neighbour that
\* is not in all_id, or of the last neighbour when all K are in all_id
MemberDist(drow, irow, all_id) ==
    LET out == {j \in DOMAIN irow : irow[j] \notin all_id}
    IN IF out # {} THEN drow[Min(out)] ELSE drow[K]

\* next_dist as the largest of the members' distances
ClusterNextDistMax(dists) == Max({dists[m] : m \in DOMAIN dists})

\* next_dist = min(dists)
ClusterNextDist(dists) == Min({dists[m] : m \in DOMAIN dists})

\* the comparison with >= for >
IsTestLoose(next_dist, excl) == next_dist >= excl

\* next_dist > excl_dist: the cluster goes to test
IsTest(next_dist, excl) == next_dist > excl

\* the locals of make_test_split before the clustering loop
LoopStart(n) ==
    [seen |-> {}, next_dists |-> [i \in 1..n |-> -1], cluster_name |-> [i \in 1..n |-> -1],
     train |-> {}, test |-> {}, train_clusters |-> <<>>, test_clusters |-> <<>>,
     nc_train |-> 0, nc_test |-> 0, all_ids |-> <<>>, raised |-> FALSE]

\* one iteration of the clustering loop that finds a new cluster, from row i
ClusterFrom(table, ov, q, excl, acc, i) ==
    LET all_id == GrowCluster(ov, ov[i], {})
        dists == [m \in all_id |-> MemberDist(q.dist[m], q.idx[m], all_id)]
        next_dist == ClusterNextDist(dists)
        summary == [next_dist |-> next_dist, size |-> Cardinality(all_id), x |-> table[i].x]
        nd == [m \in DOMAIN acc.next_dists |->
                 IF m \in all_id THEN dists[m] ELSE acc.next_dists[m]]
    IN \* min(dists) of no distance at all raises ValueError
       IF all_id = {} THEN [acc EXCEPT !.raised = TRUE]
       ELSE IF IsTest(next_dist, excl) THEN
          [acc EXCEPT !.nc_test = @ + 1,
                      !.test = @ \cup all_id,
                      !.cluster_name = [m \in DOMAIN @ |->
                                          IF m \in all_id THEN acc.nc_test + 1 ELSE @[m]],
                      !.test_clusters = Put(@, acc.nc_test + 1, summary),
                      !.next_dists = nd,
                      !.seen = @ \cup all_id,
                      !.all_ids = Append(@, all_id)]
       ELSE
          [acc EXCEPT !.nc_train = @ + 1,
                      !.train = @ \cup all_id,
                      !.cluster_name = [m \in DOMAIN @ |->
                                          IF m \in all_id THEN acc.nc_train + 1 ELSE @[m]],
                      !.train_clusters = Put(@, acc.nc_train + 1, summary),
                      !.next_dists = nd,
                      !.seen = @ \cup all_id,
                      !.all_ids = Append(@, all_id)]

\* the clustering loop, from row i on
RECURSIVE ClusterLoop(_, _, _, _, _, _)
ClusterLoop(table, ov, q, excl, acc, i) ==
    IF i > Len(table) \/ acc.raised THEN acc
    ELSE IF i \in acc.seen THEN ClusterLoop(table, ov, q, excl, acc, i + 1)
    ELSE ClusterLoop(table, ov, q, excl, ClusterFrom(table, ov, q, excl, acc, i), i + 1)

\* what a call of make_test_split that raised leaves behind
RaisedSplit(kind, built) ==
    [raised |-> kind, trees |-> built, all_ids |-> all_ids, cluster_dist |-> cluster_dist,
     cluster_assgn |-> cluster_assgn, unif_train_test |-> unif_train_test,
     train_clusters |-> train_clusters, test_clusters |-> test_clusters]

\* make_test_split(daset, res, ..., excl_dist, ...) up to the rebalancing, where q is
\* what btree.query(nA, k=K) returns for the table
make_test_split(table, ovids, r, excl, q) ==
    LET n == Len(table)
        d == OverlapDist(r)
        ov == SeqOf([i \in 1..n |-> {Gbif2Ind(table, a) : a \in ovids[i]}], n)
        acc == ClusterLoop(table, ov, q, excl, LoopStart(n), 1)
    IN
    IF ~ResOk(r) THEN RaisedSplit("resolution", 0)
    ELSE IF n = 0 THEN RaisedSplit("empty", 0)
    ELSE IF acc.raised THEN RaisedSplit("min", 1)
    \* neighbor_dist: np.take_along_axis at the count of neighbours within overlap_dist
    ELSE IF \E i \in 1..n : CountWithin(q.dist[i], d) >= K THEN RaisedSplit("index", 1)
    ELSE [raised |-> "", trees |-> 1,
          all_ids |-> acc.all_ids,
          cluster_dist |-> acc.next_dists,
          cluster_assgn |-> acc.cluster_name,
          unif_train_test |-> [i \in 1..n |-> IF i \in acc.train THEN "train"
                                              ELSE IF i \in acc.test THEN "test"
                                              ELSE "Nones"],
          train_clusters |-> acc.train_clusters,
          test_clusters |-> acc.test_clusters]

\* a call of make_test_split, up to the rebalancing, with res, excl_dist and frac from
\* the given sets
MakeTestSplitOf(resolutions, excls, fracs) ==
    /\ pc = "overlap"
    /\ \E tie \in TieBreaks : \E q \in {Query(Xs(daset), tie, K)} :
       \E r \in resolutions, excl \in excls :
         \E out \in {make_test_split(daset, overlapping_ids, r, excl, q)} :
          \E fr \in fracs :
            /\ pc' = IF out.raised = "" THEN "rebalance" ELSE "error"
            /\ err' = out.raised
            /\ res' = r
            /\ trees' = trees + out.trees
            /\ excl_dist' = IF out.raised = "" THEN excl ELSE excl_dist
            /\ frac' = IF out.raised = "" THEN fr ELSE frac
            /\ all_ids' = out.all_ids
            /\ cluster_dist' = out.cluster_dist
            /\ cluster_assgn' = out.cluster_assgn
            /\ unif_train_test' = out.unif_train_test
            /\ train_clusters' = out.train_clusters
            /\ test_clusters' = out.test_clusters
    /\ UNCHANGED <<deduped, threshold, daset, overlapping_ids, overlapping_specs, counts,
                   bandvars, dup_loop>>

MakeTestSplit == MakeTestSplitOf(Resolutions, ExclDists, Fracs)

\* len(daset[daset.unif_train_test == 'test'])
TestRows(labels) == {i \in DOMAIN labels : labels[i] = "test"}

\* the loop condition with frac read as a percentage
OverFracPercent(labels, fr) ==
    Cardinality(TestRows(labels)) * fr[2] > Len(labels) * fr[1] * 100

\* the loop condition with >= for >
OverFracLoose(labels, fr) == Cardinality(TestRows(labels)) * fr[2] >= Len(labels) * fr[1]

\* len(daset[daset.unif_train_test == 'test']) > (len(daset)*frac)
OverFrac(labels, fr) == Cardinality(TestRows(labels)) * fr[2] > Len(labels) * fr[1]

\* the relabel of the row at position to_remove only
RelabelRow(labels, assgn, to_remove) ==
    [i \in DOMAIN labels |-> IF i = to_remove THEN "train" ELSE labels[i]]

\* the relabel that swaps the label of every row whose cluster_assgn is to_remove
RelabelSwap(labels, assgn, to_remove) ==
    [i \in DOMAIN labels |->
        IF assgn[i] # to_remove THEN labels[i]
        ELSE IF labels[i] = "test" THEN "train" ELSE "test"]

\* daset.loc[(unif_train_test == 'test') & (cluster_assgn == to_remove)] = 'train'
Relabel(labels, assgn, to_remove) ==
    [i \in DOMAIN labels |->
        IF labels[i] = "test" /\ assgn[i] = to_remove THEN "train" ELSE labels[i]]

\* one iteration of the while loop: rng.permutation(keys)[0] picks any test cluster
RebalanceStep ==
    /\ pc = "rebalance"
    /\ OverFrac(unif_train_test, frac)
    /\ IF DOMAIN test_clusters = {} THEN
          /\ pc' = "error"
          /\ err' = "rng"
          /\ UNCHANGED <<unif_train_test, train_clusters, test_clusters>>
       ELSE \E to_remove \in DOMAIN test_clusters :
          /\ unif_train_test' = Relabel(unif_train_test, cluster_assgn, to_remove)
          /\ train_clusters' = Put(train_clusters, to_remove, test_clusters[to_remove])
          /\ test_clusters' = Del(test_clusters, to_remove)
          /\ UNCHANGED <<pc, err>>
    /\ UNCHANGED <<trees, deduped, res, threshold, excl_dist, frac, daset, overlapping_ids,
                   overlapping_specs, counts, all_ids, cluster_dist, cluster_assgn, bandvars, dup_loop>>

\* return daset, train_clusters, test_clusters
ReturnSplit ==
    /\ pc = "rebalance"
    /\ ~OverFrac(unif_train_test, frac)
    /\ pc' = "done"
    /\ UNCHANGED <<err, trees, deduped, res, threshold, excl_dist, frac, daset, overlapping_ids,
                   overlapping_specs, counts, all_ids, cluster_dist, cluster_assgn,
                   unif_train_test, train_clusters, test_clusters, bandvars, dup_loop>>

\* ------------------------------------------------------------------ remove_singletons_duplicates
\* vc > 4: the smallest number of observations a species needs is one more
MinSpeciesCount == 4

\* math.ceil(150*res) and math.ceil(75*res)
DupDist(r) == CeilRes(150, r)

CloseDist(r) == CeilRes(75, r)

\* the positions of the rows of species s, in table order (the group of s)
GroupRows(table, s) ==
    SelectIdx([i \in 1..Len(table) |-> i], [i \in 1..Len(table) |-> table[i].species = s], 1)

\* (dist[:,1:] <= overlapped).sum(axis=1).max() == len(group)
IsSingleton(dist, overlapped) ==
    LET m == Len(dist)
        RowSum(i) == Cardinality({c \in 2..m : dist[i][c] <= overlapped})
    IN Max({RowSum(i) : i \in 1..m}) = m

\* one anchor i of the duplicate loop; dups and ignore are sets of positions in the group
Anchor(q, r, acc, i) ==
    LET curr_dist == q.dist[i]
        n_dups == CountWithin(curr_dist, DupDist(r))
        curr_idx == q.idx[i]
    IN IF i \in acc.dups \/ i \in acc.ignore THEN acc
       ELSE IF n_dups = 2 /\ curr_dist[2] < CloseDist(r) THEN
          [dups |-> acc.dups \cup {curr_idx[2]}, ignore |-> acc.ignore \cup {curr_idx[1]}]
       ELSE IF n_dups > 2 THEN
          [dups |-> acc.dups \cup {curr_idx[c] : c \in 2..(n_dups - 1)},
           ignore |-> acc.ignore \cup {curr_idx[1], curr_idx[n_dups]}]
       ELSE acc

\* the duplicate loop over the anchors i..m of one group
RECURSIVE DupLoop(_, _, _, _)
DupLoop(q, r, acc, i) ==
    IF i > Len(q.dist) THEN acc ELSE DupLoop(q, r, Anchor(q, r, acc, i), i + 1)

\* the groups with the species of exactly 4 observations let through
GroupsLoose(table) ==
    {s \in {table[i].species : i \in 1..Len(table)} :
        Cardinality({i \in 1..Len(table) : table[i].species = s}) >= MinSpeciesCount}

\* the species with more than 4 observations: the groups of daset.groupby('species')
Groups(table) ==
    {s \in {table[i].species : i \in 1..Len(table)} :
        Cardinality({i \in 1..Len(table) : table[i].species = s}) > MinSpeciesCount}

\* btree.query(nA, k=len(nA)) for the group of species s
GroupQuery(table, tie, s) ==
    LET rows == GroupRows(table, s)
        m == Len(rows)
    IN Query(SeqOf([g \in 1..m |-> table[rows[g]].x], m), tie, m)

\* what the query of every group returns, by species
RECURSIVE GroupQueries(_, _, _)
GroupQueries(table, tie, todo) ==
    IF todo = {} THEN <<>>
    ELSE LET s == CHOOSE g \in todo : TRUE
         IN (s :> GroupQuery(table, tie, s)) @@ GroupQueries(table, tie, todo \ {s})

\* the body of the loop over the species groups, for the group of species s with
\* query result q: whether s is a singleton, and the rows (positions in the table)
\* to drop
GroupPass(table, s, r, q) ==
    LET rows == GroupRows(table, s)
        acc == DupLoop(q, r, [dups |-> {}, ignore |-> {}], 1)
    IN [singleton |-> IsSingleton(q.dist, OverlapDist(r)),
        to_drop |-> {rows[g] : g \in acc.dups},
        kept |-> {rows[g] : g \in acc.ignore}]

\* remove_singletons_duplicates(daset, res), where qs[s] is what btree.query returns
\* for the group of species s
remove_singletons_duplicates(table, r, qs) ==
    LET n == Len(table)
        groups == DOMAIN qs
        pass == [s \in groups |-> GroupPass(table, s, r, qs[s])]
        to_remove == {s \in groups : pass[s].singleton}
        to_drop == UNION {pass[s].to_drop : s \in groups}
        keep == SeqOf([i \in 1..n |-> /\ table[i].species \in groups
                                      /\ i \notin to_drop
                                      /\ table[i].species \notin to_remove], n)
    IN IF ~ResOk(r) THEN [raised |-> "resolution", trees |-> 0, daset |-> table]
       ELSE [raised |-> "", trees |-> Cardinality(groups), daset |-> SelectIdx(table, keep, 1)]

RemoveSingletonsDuplicates ==
    /\ pc = "start"
    /\ deduped < MaxPasses
    /\ \E tie \in TieBreaks : \E qs \in {GroupQueries(daset, tie, Groups(daset))} :
       \E r \in Resolutions :
         \E out \in {remove_singletons_duplicates(daset, r, qs)} :
            /\ pc' = IF out.raised = "" THEN "start" ELSE "error"
            /\ err' = out.raised
            /\ res' = r
            /\ trees' = trees + out.trees
            /\ daset' = out.daset
    /\ deduped' = deduped + 1
    /\ UNCHANGED <<threshold, excl_dist, frac, overlapping_ids, overlapping_specs,
                   counts, all_ids, cluster_dist, cluster_assgn, unif_train_test,
                   train_clusters, test_clusters, bandvars, dup_loop>>

\* the same call statement by statement, for the claims about single anchors.
\* daset.groupby('species') yields the groups in the sorted order of their names
SortedSpecies == <<"a", "b">>

FirstGroup(todo) == SortedSpecies[Min({k \in DOMAIN SortedSpecies : SortedSpecies[k] \in todo})]

\* res and the distances between consecutive observations of the tables of the
\* statement-by-statement runs: with res 0.09, ceil(150*res) is 14 and ceil(75*res) is 7,
\* so observations 0 m apart are at the same place, 5 m apart are closer than
\* ceil(75*res), 10 m apart are within ceil(150*res), and 20 m apart are not
DupResolutions == {8, 9}
DupGaps == {0, 5, 10, 20}

\* the assert on res and the value_counts filter: only the species with more than 4
\* observations stay in the table that is grouped
DupStart ==
    /\ pc = "start"
    /\ deduped < MaxPasses
    /\ \E r \in DupResolutions :
         LET n == Len(daset)
             groups == Groups(daset)
             keep == SeqOf([i \in 1..n |-> daset[i].species \in groups], n)
         IN /\ res' = r
            /\ IF ~ResOk(r) THEN
                  /\ pc' = "error"
                  /\ err' = "resolution"
                  /\ UNCHANGED <<daset, dup_loop>>
               ELSE
                  /\ pc' = "group"
                  /\ err' = ""
                  /\ daset' = SelectIdx(daset, keep, 1)
                  /\ dup_loop' = [NoLoop EXCEPT !.todo = groups]
    /\ deduped' = deduped + 1
    /\ UNCHANGED <<trees, threshold, excl_dist, frac, overlapping_ids, overlapping_specs,
                   counts, all_ids, cluster_dist, cluster_assgn, unif_train_test,
                   train_clusters, test_clusters, bandvars>>

\* the head of the loop over the groups: the tree and the query of the next group, the
\* singleton test, and dups = [] and ignore = []
EnterGroup ==
    /\ pc = "group"
    /\ dup_loop.todo # {}
    /\ \E tie \in TieBreaks :
         LET name == FirstGroup(dup_loop.todo)
             q == GroupQuery(daset, tie, name)
         IN dup_loop' = [dup_loop EXCEPT
                !.name = name, !.tie = tie, !.i = 1, !.dups = {}, !.ignore = {},
                !.to_remove = IF IsSingleton(q.dist, OverlapDist(res)) THEN @ \cup {name} ELSE @]
    /\ pc' = "anchor"
    /\ trees' = trees + 1
    /\ UNCHANGED <<err, deduped, res, threshold, excl_dist, frac, daset, overlapping_ids,
                   overlapping_specs, counts, all_ids, cluster_dist, cluster_assgn,
                   unif_train_test, train_clusters, test_clusters, bandvars>>

\* one iteration of for i in range(len(group))
AnchorStep ==
    /\ pc = "anchor"
    /\ dup_loop.i <= Len(GroupRows(daset, dup_loop.name))
    /\ \E q \in {GroupQuery(daset, dup_loop.tie, dup_loop.name)} :
         \E acc \in {Anchor(q, res, [dups |-> dup_loop.dups, ignore |-> dup_loop.ignore],
                            dup_loop.i)} :
            dup_loop' = [dup_loop EXCEPT !.i = @ + 1, !.dups = acc.dups, !.ignore = acc.ignore]
    /\ UNCHANGED <<pc, err, trees, deduped, res, threshold, excl_dist, frac, daset,
                   overlapping_ids, overlapping_specs, counts, all_ids, cluster_dist,
                   cluster_assgn, unif_train_test, train_clusters, test_clusters, bandvars>>

\* to_drop += group.index[dups].tolist(), and on to the next group
LeaveGroup ==
    /\ pc = "anchor"
    /\ dup_loop.i > Len(GroupRows(daset, dup_loop.name))
    /\ LET rows == GroupRows(daset, dup_loop.name)
       IN dup_loop' = [dup_loop EXCEPT !.todo = @ \ {dup_loop.name},
                                       !.to_drop = @ \cup {rows[g] : g \in dup_loop.dups}]
    /\ pc' = "group"
    /\ UNCHANGED <<err, trees, deduped, res, threshold, excl_dist, frac, daset,
                   overlapping_ids, overlapping_specs, counts, all_ids, cluster_dist,
                   cluster_assgn, unif_train_test, train_clusters, test_clusters, bandvars>>

\* the rows of to_drop and the species of to_remove are taken out, and the table returned
DupReturn ==
    /\ pc = "group"
    /\ dup_loop.todo = {}
    /\ LET n == Len(daset)
           keep == SeqOf([i \in 1..n |-> /\ i \notin dup_loop.to_drop
                                         /\ daset[i].species \notin dup_loop.to_remove], n)
       IN daset' = SelectIdx(daset, keep, 1)
    /\ pc' = "start"
    /\ dup_loop' = [dup_loop EXCEPT !.name = "", !.i = 0]
    /\ UNCHANGED <<err, trees, deduped, res, threshold, excl_dist, frac, overlapping_ids,
                   overlapping_specs, counts, all_ids, cluster_dist, cluster_assgn,
                   unif_train_test, train_clusters, test_clusters, bandvars>>

\* ------------------------------------------------------------------ make_spatial_split
\* KM_2_DEG = 0.008, in thousandths of a degree
KM_2_DEG == 8

\* exclude_size = KM_2_DEG+KM_2_DEG*0.5
ExcludeSize == KM_2_DEG + KM_2_DEG \div 2

\* the latmin, latmax and bandwidth arguments, in thousandths of a degree: bands as
\* wide as four buffers and as wide as one, and a latmax that is and is not a whole
\* number of bands above latmin
LatMins == {0}
LatMaxs == {48, 72, 96}
Bandwidths == {12, 48}

\* np.arange(strtlat, endlat, bandwidth): the lower edge of every band
RECURSIVE Arange(_, _, _)
Arange(lo, hi, step) == IF lo >= hi THEN <<>> ELSE <<lo>> \o Arange(lo + step, hi, step)

\* daset.intersects(Polygon(...)) for a row at latitude lat and the rectangle that spans
\* the whole longitude range and whose corners are at latitudes a and b, in whichever
\* order (the boundary is part of the polygon).  With a = b the four corners are on a
\* line and the polygon is not valid: what the geometry library answers for a point
\* on that line is flat
Intersects(lat, a, b, flat) ==
    IF a = b THEN lat = a /\ flat
    ELSE Min({a, b}) <= lat /\ lat <= Max({a, b})

\* the test polygon without the two buffers: the whole band
TestPolygonWhole(lat, lo, bw, flat) == Intersects(lat, lo, lo + bw, flat)

\* the test polygon of the band whose lower edge is lo
TestPolygon(lat, lo, bw, flat) ==
    Intersects(lat, lo + ExcludeSize, lo + bw - ExcludeSize, flat)

\* the body of the loop for band i (the first band is i = 1) with lower edge lo:
\* the rows of train_1, train_2, train_pts and test_pts, and min(dist)
Band(table, i, lo, lmin, lmax, bw, flat) ==
    LET n == Len(table)
        train_1 == {r \in 1..n : Intersects(table[r].x, lmin, lo, flat)}
        train_2 == {r \in 1..n : Intersects(table[r].x, lo + bw, lmax, flat)}
        train_pts == IF i # 1 THEN train_1 \cup train_2 ELSE train_2
        test_pts == {r \in 1..n : TestPolygon(table[r].x, lo, bw, flat)}
    IN [train |-> SeqOf([r \in 1..n |-> r \in train_1 \cup train_2], n),
        test |-> SeqOf([r \in 1..n |-> r \in test_pts], n),
        \* cKDTree(nB) of no training point raises
        built |-> train_pts # {},
        \* btree.query(nA, k=1) of no testing point raises
        raised |-> train_pts = {} \/ test_pts = {},
        min_dist |-> IF train_pts = {} \/ test_pts = {} THEN Inf
                     ELSE Min({Abs(table[t].x - table[r].x) : t \in test_pts, r \in train_pts})]

\* make_spatial_split(daset, latCol, ..., latmin, latmax, bandwidth)
make_spatial_split(table, lmin, lmax, bw, flat) ==
    LET los == Arange(lmin, lmax, bw)
        nb == Len(los)
        cols == SeqOf([i \in 1..nb |-> Band(table, i, los[i], lmin, lmax, bw, flat)], nb)
        failed == {i \in 1..nb : cols[i].raised}
    IN IF failed # {} THEN
          [raised |-> "empty",
           trees |-> Min(failed) - 1 + (IF cols[Min(failed)].built THEN 1 ELSE 0),
           bands |-> bands]
       ELSE
          [raised |-> "", trees |-> nb,
           bands |-> SeqOf([i \in 1..nb |-> [train |-> cols[i].train, test |-> cols[i].test,
                                             min_dist |-> cols[i].min_dist]], nb)]

\* a call of make_spatial_split with latmin, latmax and bandwidth from the given sets
MakeSpatialSplitOf(lmins, lmaxs, bws) ==
    /\ pc = "start"
    /\ \E lmin \in lmins, lmax \in lmaxs, bw \in bws, flat \in BOOLEAN :
         \E out \in {make_spatial_split(daset, lmin, lmax, bw, flat)} :
            /\ pc' = IF out.raised = "" THEN "bands" ELSE "error"
            /\ err' = out.raised
            /\ trees' = trees + out.trees
            /\ bandwidth' = IF out.raised = "" THEN bw ELSE bandwidth
            /\ latmax' = IF out.raised = "" THEN lmax ELSE latmax
            /\ bands' = out.bands
    /\ UNCHANGED <<deduped, res, threshold, excl_dist, frac, daset, overlapping_ids,
                   overlapping_specs, counts, all_ids, cluster_dist, cluster_assgn,
                   unif_train_test, train_clusters, test_clusters, dup_loop>>

MakeSpatialSplit == MakeSpatialSplitOf(LatMins, LatMaxs, Bandwidths)

Next ==
    \/ RemoveSingletonsDuplicates
    \/ AddOverlappingFilter
    \/ MakeTestSplit
    \/ RebalanceStep
    \/ ReturnSplit

Spec == Init /\ [][Next]_vars

\* the worked example of the specification: observations 10 m or 980 m apart, one
\* species, the smallest res (co-occurrence radius 24), no species below the threshold,
\* exclusion distances 500 and 980 and a test fraction cap of 0.3
ScenarioGaps == {10, 980}
ScenarioResolutions == {9}
ScenarioThresholds == {1}
ScenarioExclDists == {500, 980}
ScenarioFracs == {<<3, 10>>}

ScenarioInit == InitOf(TablesOf(ScenarioGaps, {"a"}))

ScenarioNext ==
    \/ AddOverlappingFilterOf(ScenarioResolutions, ScenarioThresholds)
    \/ MakeTestSplitOf(ScenarioResolutions, ScenarioExclDists, ScenarioFracs)
    \/ RebalanceStep
    \/ ReturnSplit

ScenarioSpec == ScenarioInit /\ [][ScenarioNext]_vars

\* the band split of the table, as it is read or after remove_singletons_duplicates
BandNext ==
    \/ RemoveSingletonsDuplicates
    \/ MakeSpatialSplit

BandSpec == Init /\ [][BandNext]_vars

\* remove_singletons_duplicates statement by statement, on tables of one species
DupInit == InitOf(TablesOf(DupGaps, {"a"}))

DupNext ==
    \/ DupStart
    \/ EnterGroup
    \/ AnchorStep
    \/ LeaveGroup
    \/ DupReturn

DupSpec == DupInit /\ [][DupNext]_vars

\* the band split with the default arguments: bandwidth 1 degree, and latitudes
\* measured from the default latmin (41.5 degrees); the default latmax is 7 whole bands
\* above latmin, here DefaultBands bands.  The observations are 0.006, 0.012, 0.5 or 1
\* degree apart: on band edges, in buffers, on the border of a testing region, inside
DefaultBands == 3
DefaultBandwidth == 1000
DefaultLatMax == DefaultBands * DefaultBandwidth
BandGaps == {6, 12, 500, 1000}

DefaultInit == InitOf(TablesOf(BandGaps, {"a"}))

DefaultNext == MakeSpatialSplitOf(LatMins, {DefaultLatMax}, {DefaultBandwidth})

DefaultSpec == DefaultInit /\ [][DefaultNext]_vars

\* ------------------------------------------------------------------ properties
\* make_test_split has finished its assignment loop and has not raised
Assigned == pc \in {"rebalance", "done"}

Rows == 1..Len(daset)

\* the distance between rows i and j of the table
RowDist(i, j) == Abs(daset[i].x - daset[j].x)

\* the rows whose ids are in the overlapping_ids of row i
Overlapping(i) == {j \in Rows : daset[j].id \in overlapping_ids[i]}

\* the connected component of row i in the graph of overlapping_ids
RECURSIVE Reach(_)
Reach(S) ==
    LET T == S \cup UNION {Overlapping(k) : k \in S}
    IN IF T = S THEN S ELSE Reach(T)

Component(i) == Reach({i})

\* some test cluster has been relabelled to train by the rebalancing loop
Rebalanced ==
    \E k \in DOMAIN train_clusters : train_clusters[k].next_dist > excl_dist

\* the threshold filter has removed rows of the input table
Filtered == \E i \in Rows : daset[i].id # ObsId(i)

\* C1: when make_test_split returns, every test row and every train row are at least
\* excl_dist apart, or are members of the same cluster of the clustering loop.
C1_LeakageBound ==
    pc = "done" =>
        \A t, r \in Rows :
            (unif_train_test[t] = "test" /\ unif_train_test[r] = "train") =>
                \/ RowDist(t, r) >= excl_dist
                \/ \E c \in DOMAIN all_ids : t \in all_ids[c] /\ r \in all_ids[c]

C1_Witness ==
    /\ pc = "done"
    /\ Rebalanced
    /\ \E t, r \in Rows : unif_train_test[t] = "test" /\ unif_train_test[r] = "train"

\* C2: the all_id sets found by the clustering loop are a partition of the rows of
\* the (post-filter) table: every row is in exactly one of them.
C2_ClusterPartition ==
    Assigned =>
        /\ \A c \in DOMAIN all_ids : all_ids[c] # {} /\ all_ids[c] \subseteq Rows
        /\ \A i \in Rows : Cardinality({c \in DOMAIN all_ids : i \in all_ids[c]}) = 1

C2_Witness ==
    /\ pc = "rebalance"
    /\ Filtered
    /\ Len(all_ids) >= 2
    /\ \E c \in DOMAIN all_ids : Cardinality(all_ids[c]) >= 3

\* C3: once the assignment loop is over, and after every relabel of the rebalancing
\* loop, all rows of one connected component of the overlap graph have the same
\* unif_train_test label.
C3_ClusterCoherence ==
    Assigned =>
        \A i \in Rows : \A j \in Component(i) : unif_train_test[i] = unif_train_test[j]

C3_Witness ==
    /\ pc = "rebalance"
    /\ Rebalanced
    /\ \E i \in Rows : Cardinality(Component(i)) >= 2 /\ unif_train_test[i] = "test"

\* C4: in the table add_overlapping_filter returns, b's id is in the overlapping_ids
\* of a exactly when a's id is in the overlapping_ids of b.
C4_Symmetry ==
    pc = "overlap" =>
        \A a, b \in Rows :
            daset[b].id \in overlapping_ids[a] <=> daset[a].id \in overlapping_ids[b]

C4_Witness ==
    /\ pc = "overlap"
    /\ Filtered
    /\ \E a, b \in Rows : a # b /\ daset[b].id \in overlapping_ids[a]

\* C5: when make_test_split returns, the share of test rows is at most frac plus the
\* share of one cluster (the largest).
C5_RebalancingCap ==
    pc = "done" =>
        LET largest == Max({Cardinality(all_ids[c]) : c \in DOMAIN all_ids})
        IN Cardinality(TestRows(unif_train_test)) * frac[2]
              <= Len(daset) * frac[1] + largest * frac[2]

C5_Witness ==
    /\ pc = "done"
    /\ Rebalanced
    /\ TestRows(unif_train_test) # {}

\* C6: a step of the rebalancing loop turns no train row into a test row and does not
\* increase the number of test rows, and no cluster whose next_dist is <= excl_dist
\* is ever labelled test.
C6_OnlyTestToTrain ==
    /\ [][pc = "rebalance" =>
            /\ \A i \in Rows : unif_train_test[i] = "train" => unif_train_test'[i] = "train"
            /\ Cardinality(TestRows(unif_train_test')) <= Cardinality(TestRows(unif_train_test))]_vars
    /\ [](Assigned =>
            \A c \in DOMAIN all_ids :
                Min({cluster_dist[m] : m \in all_ids[c]}) <= excl_dist =>
                    \A m \in all_ids[c] : unif_train_test[m] # "test")

C6_Witness ==
    /\ pc = "rebalance"
    /\ Rebalanced
    /\ \E k \in DOMAIN train_clusters : train_clusters[k].next_dist <= excl_dist
    /\ DOMAIN test_clusters # {}

\* the all_id set that holds row m
ClusterOf(m) == all_ids[CHOOSE c \in DOMAIN all_ids : m \in all_ids[c]]

\* the distance from row m to the nearest row outside its cluster (inf when none)
NonMemberDist(m) ==
    LET out == Rows \ ClusterOf(m)
    IN IF out = {} THEN Inf ELSE Min({RowDist(m, o) : o \in out})

\* the K nearest rows of m are all in its cluster, whatever the order of ties: at
\* least K rows are strictly nearer to m than any row outside the cluster
Saturated(m) == Cardinality({j \in Rows : RowDist(m, j) < NonMemberDist(m)}) >= K

\* the distance from row m to its K-th nearest row (itself included)
KthDist(m) ==
    CHOOSE d \in {RowDist(m, j) : j \in Rows} :
        /\ Cardinality({j \in Rows : RowDist(m, j) < d}) < K
        /\ Cardinality({j \in Rows : RowDist(m, j) <= d}) >= K

\* C7: when the clustering loop finds a cluster whose members are the whole table,
\* the run raises an error.
C7_DegenerateRaises ==
    \A c \in DOMAIN all_ids : all_ids[c] = Rows => pc = "error"

\* C8 (as claimed): when all K nearest neighbours of a cluster member are cluster
\* members, make_test_split fails; it assigns no distance and no label.
C8_SaturationRaises ==
    Assigned => \A m \in Rows : ~Saturated(m)

\* C8 (amended): when all K nearest neighbours of a cluster member are cluster
\* members, make_test_split goes on and records the distance of the K-th neighbour
\* as that member's cluster_dist, which is at most the distance to the nearest row
\* outside the cluster.
C8_SaturationFallback ==
    Assigned =>
        \A m \in Rows :
            Saturated(m) =>
                /\ cluster_dist[m] = KthDist(m)
                /\ cluster_dist[m] <= NonMemberDist(m)

C8_Witness ==
    /\ pc = "done"
    /\ \E m \in Rows : Saturated(m) /\ ClusterOf(m) # Rows /\ cluster_dist[m] < NonMemberDist(m)

\* the number of rows of the table within d of row i
TrueCount(i, d) == Cardinality({j \in Rows : RowDist(i, j) <= d})

\* C9: a call of add_overlapping_filter (with a valid res, on a table with rows)
\* fails on its assertion, and returns no table, exactly when some row has K or more
\* rows within the co-occurrence radius; a table it returns has, for every row, all
\* the surviving rows within the radius in overlapping_ids.
C9_KSaturationAborts ==
    [][(pc = "start" /\ pc' # "start" /\ res' >= 9 /\ res' <= 3000) =>
          /\ (\E i \in Rows : TrueCount(i, OverlapDist(res')) >= K)
                <=> (pc' = "error" /\ err' = "K")
          /\ pc' = "error" => (daset' = daset /\ overlapping_ids' = overlapping_ids)
          /\ pc' = "overlap" =>
                \A a \in DOMAIN daset' :
                    overlapping_ids'[a] =
                        {daset'[b].id : b \in {c \in DOMAIN daset' :
                            Abs(daset'[a].x - daset'[c].x) <= OverlapDist(res')}}]_vars

C9_Witness ==
    /\ pc = "error"
    /\ err = "K"
    /\ deduped = 1
    /\ Len(daset) > K
    /\ \E i \in Rows : TrueCount(i, OverlapDist(res)) >= K
    /\ \E i \in Rows : TrueCount(i, OverlapDist(res)) < K

\* C10: add_overlapping_filter, make_test_split and remove_singletons_duplicates each
\* fail when res is outside [0.09, 30], before they build a cKDTree, and none of them
\* fails on res when res is in that range, 0.09 and 30 included.
C10_ResolutionCheck ==
    [][(pc \in {"start", "overlap"} /\ (pc' # pc \/ deduped' # deduped)) =>
          /\ (res' < 9 \/ res' > 3000) =>
                (pc' = "error" /\ err' = "resolution" /\ trees' = trees)
          /\ (res' >= 9 /\ res' <= 3000) => err' # "resolution"]_vars

C10_Witness ==
    /\ pc = "error"
    /\ err = "resolution"
    /\ res = 8
    /\ overlapping_ids # <<>>
    /\ deduped = 1
    /\ trees = 2

\* C11: in every band i of a table make_spatial_split returns, every row with test_i
\* True is at least exclude_size away from every row with train_i True.
C11_BandBuffer ==
    pc = "bands" =>
        \A i \in DOMAIN bands : \A t, r \in Rows :
            (bands[i].test[t] /\ bands[i].train[r]) => RowDist(t, r) >= ExcludeSize

\* C12: make_spatial_split does not return a table with a band whose measured minimum
\* distance between its testing and training points is below exclude_size: it aborts.
C12_VerificationFatal ==
    \A i \in DOMAIN bands : bands[i].min_dist < ExcludeSize => pc = "error"

\* C13: in the table add_overlapping_filter returns, no row has a species whose count
\* in Counter(flattened) was below threshold, and every id in a row's overlapping_ids
\* (and every species in its overlapping_specs) is that of a row of the returned table.
C13_FilterClosure ==
    pc = "overlap" =>
        /\ \A i \in Rows : counts[daset[i].species] >= threshold
        /\ \A i \in Rows :
              /\ overlapping_ids[i] \subseteq {daset[j].id : j \in Rows}
              /\ overlapping_specs[i] \subseteq {daset[j].species : j \in Rows}

C13_Witness ==
    /\ pc = "overlap"
    /\ Filtered
    /\ Rows # {}
    /\ \E s \in DOMAIN counts : counts[s] < threshold /\ counts[s] > 0
    /\ \E i \in Rows : Cardinality(overlapping_ids[i]) >= 2

\* the rows of species s are all within d of each other
AllWithin(table, s, d) ==
    \A i, j \in 1..Len(table) :
        (table[i].species = s /\ table[j].species = s) => Abs(table[i].x - table[j].x) <= d

\* a call of remove_singletons_duplicates that returned
DedupReturns == pc = "start" /\ deduped' = deduped + 1 /\ pc' = "start"

\* C14: a call of remove_singletons_duplicates that returns leaves no observation of a
\* species (of more than 4 observations) whose observations were all within the
\* co-occurrence radius ceil(256*res) of each other.
C14_SingletonRemoved ==
    [][DedupReturns =>
          \A s \in Groups(daset) :
              AllWithin(daset, s, OverlapDist(res')) =>
                  \A i \in DOMAIN daset' : daset'[i].species # s]_vars

\* C15: a call of remove_singletons_duplicates on the table an earlier call (same res)
\* returned removes no observation.
C15_Idempotent ==
    [][(DedupReturns /\ deduped >= 1 /\ res' = res) => daset' = daset]_vars

\* the worked example: observations at 0, 10, 20, 1000 and 1010 m, exclusion distance
\* 500 and a test fraction cap of 0.3
IsScenario ==
    /\ Len(daset) = 5
    /\ Xs(daset) = <<0, 10, 20, 1000, 1010>>
    /\ excl_dist = 500
    /\ frac = <<3, 10>>

\* the assignment loop found the clusters {0, 10, 20} and {1000, 1010}, both with
\* next_dist 980 and both labelled test
ScenarioClusters ==
    /\ all_ids = <<{1, 2, 3}, {4, 5}>>
    /\ train_clusters = <<>>
    /\ DOMAIN test_clusters = {1, 2}
    /\ \A k \in {1, 2} : test_clusters[k].next_dist = 980
    /\ unif_train_test = <<"test", "test", "test", "test", "test">>

\* C16 (as claimed): in the worked example make_test_split returns with exactly one of
\* the two clusters still labelled test.
C16_OneTestClusterLeft ==
    (IsScenario /\ pc = "done") => Cardinality(DOMAIN test_clusters) = 1

\* C16 (amended): in the worked example the assignment loop finds the two clusters, both
\* with next_dist 980 and labelled test, and make_test_split returns with both
\* relabelled to train and no test cluster left.
C16_BothRelabelled ==
    IsScenario =>
        /\ (pc = "rebalance" /\ ~Rebalanced) => ScenarioClusters
        /\ pc = "done" =>
              /\ test_clusters = <<>>
              /\ DOMAIN train_clusters = {1, 2}
              /\ unif_train_test = <<"train", "train", "train", "train", "train">>

C16_Witness ==
    /\ IsScenario
    /\ pc = "done"
    /\ DOMAIN train_clusters = {1, 2}

\* the next_dist of the cluster with members c: the smallest cluster_dist of a member
NextDistOf(c) == Min({cluster_dist[m] : m \in c})

\* C18: when the assignment loop of make_test_split is over and before any relabel, the
\* members of a cluster are labelled test if the cluster's next_dist is greater than
\* excl_dist and train otherwise, also when next_dist equals excl_dist.
C18_AssignmentRule ==
    (pc = "rebalance" /\ ~Rebalanced) =>
        \A c \in DOMAIN all_ids : \A m \in all_ids[c] :
            unif_train_test[m] = IF NextDistOf(all_ids[c]) > excl_dist THEN "test" ELSE "train"

C18_Witness ==
    /\ pc = "rebalance"
    /\ \E c \in DOMAIN all_ids :
          /\ NextDistOf(all_ids[c]) = excl_dist
          /\ Cardinality(all_ids[c]) >= 2
          /\ \A m \in all_ids[c] : unif_train_test[m] = "train"

\* the summary entry the assignment loop wrote for the cluster with members c
SummaryOf(c) ==
    LET m == CHOOSE o \in c : TRUE
    IN IF unif_train_test[m] = "test" THEN test_clusters[cluster_assgn[m]]
       ELSE train_clusters[cluster_assgn[m]]

\* the smallest distance from a member of c to a row that is not a member
TrueNextDist(c) == Min({NonMemberDist(m) : m \in c})

\* C19 (as claimed): the next_dist in the summary of every cluster that leaves some row
\* out equals the smallest distance from a member to a row outside the cluster.
C19_NextDistExact ==
    (pc = "rebalance" /\ ~Rebalanced) =>
        \A c \in DOMAIN all_ids :
            all_ids[c] # Rows => SummaryOf(all_ids[c]).next_dist = TrueNextDist(all_ids[c])

\* C19 (amended): the next_dist in the summary of every cluster that leaves some row
\* out is at most the smallest distance from a member to a row outside the cluster, and
\* equals it when no member has all its K nearest neighbours in the cluster.
C19_NextDistBound ==
    (pc = "rebalance" /\ ~Rebalanced) =>
        \A c \in DOMAIN all_ids :
            all_ids[c] # Rows =>
                /\ SummaryOf(all_ids[c]).next_dist <= TrueNextDist(all_ids[c])
                /\ (\A m \in all_ids[c] : ~Saturated(m)) =>
                      SummaryOf(all_ids[c]).next_dist = TrueNextDist(all_ids[c])

C19_Witness ==
    /\ pc = "rebalance"
    /\ ~Rebalanced
    /\ \E c \in DOMAIN all_ids :
          /\ all_ids[c] # Rows
          /\ \E m \in all_ids[c] : Saturated(m)
          /\ SummaryOf(all_ids[c]).next_dist < TrueNextDist(all_ids[c])
    /\ \E c \in DOMAIN all_ids :
          /\ \A m \in all_ids[c] : ~Saturated(m)
          /\ SummaryOf(all_ids[c]).next_dist = TrueNextDist(all_ids[c])

\* the sum of the sizes of the summary entries of d with keys in ks
RECURSIVE SumSizes(_, _)
SumSizes(d, ks) ==
    IF ks = {} THEN 0
    ELSE LET k == CHOOSE o \in ks : TRUE IN d[k].size + SumSizes(d, ks \ {k})

\* the rows with the given label
Labelled(l) == {i \in Rows : unif_train_test[i] = l}

\* C20: once the assignment loop is over, after every relabel and at the return, the
\* sizes in train_clusters add up to the number of train rows and the sizes in
\* test_clusters to the number of test rows, and every cluster has a summary entry of
\* its size under its cluster_assgn in the dict of its label.
C20_SummariesCover ==
    Assigned =>
        /\ SumSizes(train_clusters, DOMAIN train_clusters) = Cardinality(Labelled("train"))
        /\ SumSizes(test_clusters, DOMAIN test_clusters) = Cardinality(Labelled("test"))
        /\ \A c \in DOMAIN all_ids : \A m \in all_ids[c] :
              LET d == IF unif_train_test[m] = "test" THEN test_clusters ELSE train_clusters
              IN /\ cluster_assgn[m] \in DOMAIN d
                 /\ d[cluster_assgn[m]].size = Cardinality(all_ids[c])

\* C21: once the assignment loop of make_test_split is over, two rows with the same
\* cluster_assgn are members of the same cluster (the same all_id set), whatever their
\* labels.
C21_ClusterIdsIdentify ==
    Assigned =>
        \A i, j \in Rows : cluster_assgn[i] = cluster_assgn[j] => ClusterOf(i) = ClusterOf(j)

\* the rows the relabel of test cluster k is about: the members of the cluster that is
\* labelled test and has cluster_assgn k
PickedMembers(k) == {m \in Rows : unif_train_test[m] = "test" /\ cluster_assgn[m] = k}

\* C22: a step of the rebalancing loop picks one test cluster (and removes its key from
\* test_clusters), changes the label of exactly the members of that cluster, which is
\* one whole cluster of the assignment loop, and changes no cluster_assgn, no
\* cluster_dist and no other label; when the test count is not greater than frac times
\* the table size, the step is the return: nothing is picked and no label and no
\* summary changes.
C22_RebalanceFrame ==
    [][pc = "rebalance" =>
          /\ cluster_assgn' = cluster_assgn
          /\ cluster_dist' = cluster_dist
          /\ OverFrac(unif_train_test, frac) =>
                \E k \in DOMAIN test_clusters :
                    /\ test_clusters' = Del(test_clusters, k)
                    /\ \E c \in DOMAIN all_ids : all_ids[c] = PickedMembers(k)
                    /\ \A i \in Rows :
                          unif_train_test'[i] # unif_train_test[i] <=> i \in PickedMembers(k)
          /\ ~OverFrac(unif_train_test, frac) =>
                /\ pc' = "done"
                /\ UNCHANGED <<unif_train_test, train_clusters, test_clusters>>]_vars

\* a relabel has happened in a table where a train cluster and the relabelled cluster
\* have the same cluster_assgn, and a test cluster of two rows or more is left to pick
C22_Witness ==
    /\ pc = "rebalance"
    /\ Rebalanced
    /\ OverFrac(unif_train_test, frac)
    /\ \E i, j \in Rows :
          /\ cluster_assgn[i] = cluster_assgn[j]
          /\ ClusterOf(i) # ClusterOf(j)
          /\ unif_train_test[i] = "train" /\ unif_train_test[j] = "train"
          /\ NextDistOf(ClusterOf(i)) > excl_dist
    /\ \E k \in DOMAIN test_clusters : Cardinality(PickedMembers(k)) >= 2

\* the rebalancing loop run to its end: tables of one species, no species below the
\* threshold, and frac 0 (every test cluster has to go) and 0.5; the loop and the
\* return are sequential code, so the one of them that can run does run
TermFracs == {<<0, 1>>, <<1, 2>>}

TermInit == InitOf(TablesOf(Gaps, {"a"}))

TermNext ==
    \/ AddOverlappingFilterOf(ScenarioResolutions, ScenarioThresholds)
    \/ MakeTestSplitOf(ScenarioResolutions, ExclDists, TermFracs)
    \/ RebalanceStep
    \/ ReturnSplit

TermSpec == TermInit /\ [][TermNext]_vars /\ WF_vars(RebalanceStep) /\ WF_vars(ReturnSplit)

\* C23: for frac >= 0, every iteration of the rebalancing loop relabels the rows of one
\* test cluster, at least one row, and removes that cluster's key from test_clusters, so
\* there are at most as many iterations as test clusters; the loop never picks from an
\* empty test_clusters, and make_test_split returns.
C23_RebalanceTerminates ==
    /\ [][(pc = "rebalance" /\ pc' = "rebalance") =>
             /\ Cardinality(DOMAIN test_clusters') = Cardinality(DOMAIN test_clusters) - 1
             /\ TestRows(unif_train_test') \subseteq TestRows(unif_train_test)
             /\ TestRows(unif_train_test') # TestRows(unif_train_test)]_vars
    /\ [](err # "rng")
    /\ [](pc = "rebalance" => Cardinality(DOMAIN test_clusters) <= Len(all_ids))
    /\ (pc = "rebalance" ~> pc = "done")

\* make_test_split has returned after relabelling, with frac 0, two clusters or more,
\* which were all the test clusters
C23_Witness ==
    /\ pc = "done"
    /\ frac = <<0, 1>>
    /\ test_clusters = <<>>
    /\ \E i, j \in Rows :
          /\ ClusterOf(i) # ClusterOf(j)
          /\ NextDistOf(ClusterOf(i)) > excl_dist
          /\ NextDistOf(ClusterOf(j)) > excl_dist
    /\ \E i \in Rows : NextDistOf(ClusterOf(i)) <= excl_dist

\* the number of rows of the table that have a row of species s within d (themselves
\* included): the neighbourhoods species s appears in
Neighbourhoods(s, d) ==
    Cardinality({i \in Rows : \E j \in Rows : daset[j].species = s /\ RowDist(i, j) <= d})

\* C24: the count add_overlapping_filter compares against threshold for a species is
\* the number of observations of the table it was called on whose neighbourhood (the
\* observations within ceil(256*res)) holds that species, each neighbourhood counted
\* once.
C24_HistogramSemantics ==
    [][(pc = "start" /\ pc' = "overlap") =>
          \A s \in DOMAIN counts' : counts'[s] = Neighbourhoods(s, OverlapDist(res'))]_vars

\* the group in progress: the rows (positions in the table) of the species dup_loop.name
LoopRows == GroupRows(daset, dup_loop.name)

\* the distance between the observations at positions g and h of the group in progress
GroupDist(g, h) == Abs(daset[LoopRows[g]].x - daset[LoopRows[h]].x)

\* the observations of the group within ceil(150*res) of the one at position a, itself
\* included
DupsOf(a) == {g \in DOMAIN LoopRows : GroupDist(a, g) <= DupDist(res)}

\* an iteration of the loop over the anchors whose anchor is neither dropped nor kept
FreshAnchor ==
    /\ pc = "anchor"
    /\ dup_loop'.i = dup_loop.i + 1
    /\ dup_loop.i \notin dup_loop.dups \cup dup_loop.ignore

\* the rule for the anchor dup_loop.i with n observations of the group within
\* ceil(150*res) of it: the other one dropped when n = 2 and it is closer than
\* ceil(75*res), all but the anchor and one of the farthest dropped when n > 2, and
\* nothing dropped otherwise
AnchorRule ==
    LET a == dup_loop.i
        near == DupsOf(a)
        n == Cardinality(near)
        others == near \ {a}
    IN IF n = 2 /\ \A o \in others : GroupDist(a, o) < CloseDist(res) THEN
          /\ dup_loop'.dups = dup_loop.dups \cup others
          /\ dup_loop'.ignore = dup_loop.ignore \cup {a}
       ELSE IF n > 2 THEN
          \E f \in others :
              /\ \A o \in others : GroupDist(a, o) <= GroupDist(a, f)
              /\ dup_loop'.ignore = dup_loop.ignore \cup {a, f}
              /\ dup_loop'.dups = dup_loop.dups \cup (near \ {a, f})
       ELSE
          /\ dup_loop'.dups = dup_loop.dups
          /\ dup_loop'.ignore = dup_loop.ignore

\* C25: an iteration for an anchor that is neither dropped nor kept, with n observations
\* of the group within ceil(150*res) of it (itself included): if n = 2 and the other is
\* closer than ceil(75*res), the other joins the dropped and the anchor the kept; if
\* n > 2, the anchor and one of the farthest of the n join the kept and the n - 2 others
\* the dropped; otherwise the dropped and the kept do not change.
C25_DuplicateRule == [][FreshAnchor => AnchorRule]_vars

\* C26: in the loop over the anchors of a group, an observation that is in the kept set
\* (ignore) is never added to the dropped set (dups) by a later anchor: the two sets are
\* disjoint.
C26_KeptStayKept ==
    /\ [][pc = "anchor" => (dup_loop.ignore \cap dup_loop'.dups) \subseteq dup_loop.dups]_vars
    /\ [](dup_loop.dups \cap dup_loop.ignore = {})

\* the lower edge of band i (the first band is i = 1) of the split that returned
BandLo(i) == (i - 1) * bandwidth

\* the latitudes strictly between an edge of band i and its testing region
InBuffer(lat, i) ==
    \/ BandLo(i) < lat /\ lat < BandLo(i) + ExcludeSize
    \/ BandLo(i) + bandwidth - ExcludeSize < lat /\ lat < BandLo(i) + bandwidth

\* C27: in every band i of a table make_spatial_split returns, no row has both train_i
\* and test_i True, and a row whose latitude is strictly between an edge of band i and
\* the band's testing region has both False.
C27_BandExclusive ==
    pc = "bands" =>
        \A i \in DOMAIN bands : \A r \in Rows :
            /\ ~(bands[i].train[r] /\ bands[i].test[r])
            /\ InBuffer(daset[r].x, i) => (~bands[i].train[r] /\ ~bands[i].test[r])

\* the bands in which row r is a testing point
TestBands(r) == {i \in DOMAIN bands : bands[i].test[r]}

\* C28: in the table make_spatial_split returns for the default bounds and bandwidth,
\* every row has test_i True for at most one band i, and a row with test_i True has
\* train_j True for every other band j.
C28_TestInOneBand ==
    pc = "bands" =>
        \A r \in Rows :
            /\ Cardinality(TestBands(r)) <= 1
            /\ \A i \in TestBands(r) : \A j \in DOMAIN bands : j # i => bands[j].train[r]

\* a split that returned, with a row on the edge between the first band and the middle
\* band, which is a testing point of neither, and a row on the border of the testing
\* region of the middle band, which is a training point of the bands below and above
C28_Witness ==
    /\ pc = "bands"
    /\ Len(bands) >= 3
    /\ \E r \in Rows : daset[r].x = bandwidth /\ TestBands(r) = {}
    /\ \E r \in Rows :
          /\ daset[r].x = bandwidth + ExcludeSize
          /\ TestBands(r) = {2}
          /\ bands[1].train[r] /\ bands[3].train[r]

\* C29: in the table add_overlapping_filter returns every row's overlapping_ids holds the
\* row's own id, and once the assignment loop of make_test_split is over, and when
\* make_test_split returns, every row has unif_train_test 'train' or 'test', a
\* cluster_assgn of 1 or more and a cluster_dist that is not the initial -1.
C29_AllAssigned ==
    /\ pc = "overlap" => \A i \in Rows : daset[i].id \in overlapping_ids[i]
    /\ Assigned =>
          \A i \in Rows :
              /\ unif_train_test[i] \in {"train", "test"}
              /\ cluster_assgn[i] >= 1
              /\ cluster_dist[i] # -1

\* make_test_split has returned a table that lost rows to the threshold filter, with a
\* row that overlaps no other row and rows that do, and both labels present
C29_Witness ==
    /\ pc = "done"
    /\ Filtered
    /\ \E i \in Rows : overlapping_ids[i] = {daset[i].id}
    /\ \E i \in Rows : Cardinality(overlapping_ids[i]) >= 2
    /\ Labelled("train") # {}
    /\ Labelled("test") # {}

\* the number of rows of species s in the table
Observations(table, s) == Cardinality({i \in DOMAIN table : table[i].species = s})

\* C30: the table a call of remove_singletons_duplicates returns has no row of a species
\* that had 4 or fewer rows in the table it was called on, and the call builds a cKDTree
\* for, and so runs the duplicate loop on, every species that had 5 rows or more, a
\* species of exactly 5 included.
C30_MinSpeciesSize ==
    [][DedupReturns =>
          /\ \A i \in DOMAIN daset' : Observations(daset, daset'[i].species) > MinSpeciesCount
          /\ trees' - trees =
                Cardinality({s \in Species : Observations(daset, s) >= MinSpeciesCount + 1})]_vars

\* two calls have returned and built one cKDTree between them: the first ran the
\* duplicate loop on a species of 5 rows and dropped some of them, the second removed
\* the 4 or fewer that were left without building a tree
C30_Witness ==
    /\ pc = "start"
    /\ deduped = 2
    /\ trees = 1
    /\ daset = <<>>

====
